---- MODULE Spec2Model ----
(***************************************************************************)
(* Cooking-session engine of static/javascript/cuisiner.js (timestamp      *)
(* variant, lines 1-679): per-step countdown timers driven by Date.now(),  *)
(* a 100 ms setInterval callback, the Page Visibility resync, and the      *)
(* completed-steps aggregator.                                             *)
(*                                                                         *)
(* Every handler of the script is a pure operator over a "world" record    *)
(* (the script's globals, the DOM nodes it writes, and counters of the     *)
(* side effects it requests), written statement by statement after the     *)
(* source; an action applies one handler to the current world.             *)
(*                                                                         *)
(* Every step of the page carries its timer widgets.  The interval handle  *)
(* is null or set, and `live` counts the callbacks scheduled for a step.   *)
(* Left out: the status badge, the card classes, the width of each step's  *)
(* progress bar, and what the audio and notification calls do when they    *)
(* succeed (each is counted).                                              *)
(***************************************************************************)
EXTENDS Integers, FiniteSets, Sequences, TLC

(* ---------------- program constants ---------------- *)
MsPerSecond == 1000
SecondsPerMinute == 60
CriticalSeconds == 30
WarningSeconds == 60

(* ---------------- bounds of the model ---------------- *)
\* number of steps (.rd-step cards) of a session page; each has its timer
\* widgets
NumSteps == 2
\* clock reading (ms) when the page has loaded
Epoch == 100000
\* the clock advances by one of two gaps (ms): less than a second, or a long
\* suspension; longer gaps are several advances with no callback in between
ShortGap == 500
LongGap == 29500
\* number of clock advances in a behaviour
MaxAdvances == 4
\* number of suspensions of the page in a behaviour of the session
MaxSuspensions == 2
\* largest argument (minutes) given to startTimer / resetTimer
MaxMinutes == 1
\* side-effect counters saturate here
MaxCount == 2

Gaps == {ShortGap, LongGap}
\* a suspension of the page: one minute and more, no callback delivered
SuspensionGap == 2 * (LongGap + ShortGap)
\* half a minute; a whole number of them keeps the countdown on the values
\* 0, 30, 60, ...
HalfMinute == LongGap + ShortGap
Minutes == 0 .. MaxMinutes
\* constructing the AudioContext returns one, throws, or there is no
\* constructor (which throws a TypeError)
AudioOutcomes == {"works", "throws", "absent"}
\* Notification.permission is granted and the constructor returns, the
\* constructor throws, or there is no permission / no API
NotificationOutcomes == {"granted", "throws", "absent"}
MessageOutcomes == {"present", "absent"}
\* the step ids the handlers are called with; a page shows the cards of
\* some of them, the last one is the id of no card of any page
ArgIds == 1 .. NumSteps + 1

\* JavaScript null, for the numeric fields and the interval handle
NULL == -1
\* the handle setInterval returned (handles are not told apart: every
\* callback of a step runs the same closure over etapeId)
HANDLE == 1

VARIABLES
    now,            \* Date.now(), ms
    advances,       \* clock advances so far (bounds the behaviour)
    steps,          \* ids of the .rd-step cards of the page (fixed at load)
    timers,         \* the timers object: step id -> timer record
    live,           \* step id -> number of scheduled setInterval callbacks
    timeText,       \* #timer-time-<id>: the remaining seconds displayed
    classes,        \* #timer-display-<id>: its rd-timer-* classes
    buttons,        \* which of start / pause / resume is shown
    completedSteps, \* the completedSteps Set
    progressText,   \* #progress-text: <<completed, total>>
    globalProgress, \* #global-progress: its width in percent, a fraction
    finishedEvents, \* step id -> timerFinished calls in the current run
    warningSounds,  \* step id -> NotificationSound.playWarning calls in the run
    criticalEntries,\* step id -> entries into the rd-timer-critical display
    celebrations,   \* session-complete notifications since load
    unloaded,       \* the page is gone: its beforeunload listener has run
    audio,          \* what constructing an AudioContext does
    notifications,  \* what the Notification API does
    message,        \* whether #cooking-notification is in the page
    counter         \* the page of the decrementing-counter variant

vars == <<now, advances, steps, timers, live, timeText, classes, buttons,
          completedSteps, progressText, globalProgress, finishedEvents,
          warningSounds, criticalEntries, celebrations, unloaded,
          audio, notifications, message, counter>>

World ==
    [now |-> now, steps |-> steps, timers |-> timers, live |-> live,
     timeText |-> timeText, classes |-> classes, buttons |-> buttons,
     completedSteps |-> completedSteps, progressText |-> progressText,
     globalProgress |-> globalProgress,
     finishedEvents |-> finishedEvents, warningSounds |-> warningSounds,
     criticalEntries |-> criticalEntries, celebrations |-> celebrations,
     unloaded |-> unloaded,
     audio |-> audio, notifications |-> notifications, message |-> message,
     \* the handler call in progress: whether an exception is propagating
     \* out of it, and what it has handed to the browser so far (scrollIntoView
     \* requests, in-app messages shown, system notifications created,
     \* sounds started)
     thrown |-> FALSE, scrolls |-> 0, shown |-> 0, notified |-> 0,
     played |-> 0]

\* a handler has run on the page, which was there to run it (its result
\* R is computed once)
Yields(W) ==
    /\ ~unloaded
    /\ \E R \in {W} :
           /\ unloaded' = R.unloaded
           /\ audio' = R.audio
           /\ notifications' = R.notifications
           /\ message' = R.message
           /\ now' = R.now
           /\ steps' = R.steps
           /\ timers' = R.timers
           /\ live' = R.live
           /\ timeText' = R.timeText
           /\ classes' = R.classes
           /\ buttons' = R.buttons
           /\ completedSteps' = R.completedSteps
           /\ progressText' = R.progressText
           /\ globalProgress' = R.globalProgress
           /\ finishedEvents' = R.finishedEvents
           /\ warningSounds' = R.warningSounds
           /\ criticalEntries' = R.criticalEntries
           /\ celebrations' = R.celebrations

\* a handler of the timestamp variant has run; the counter variant's page
\* is another page
Becomes(W) ==
    /\ Yields(W)
    /\ counter' = counter

(* ---------------- arithmetic ---------------- *)
Max(a, b) == IF a >= b THEN a ELSE b

\* Math.ceil(a / b) for b > 0 (\div rounds towards minus infinity)
Ceil(a, b) == -((-a) \div b)

Bump(c) == IF c < MaxCount THEN c + 1 ELSE c

RECURSIVE Gcd(_, _)
Gcd(a, b) == IF b = 0 THEN a ELSE Gcd(b, a % b)

\* the number a / b (b > 0) as <<numerator, denominator>> in lowest terms;
\* the script's doubles are taken as exact
Fraction(a, b) == <<a \div Gcd(a, b), b \div Gcd(a, b)>>

\* a null endTime coerces to 0 in the subtraction
Num(x) == IF x = NULL THEN 0 ELSE x

\* mutant: the remaining time is rounded down
Remaining_floor(W, id) ==
    Max(0, (Num(W.timers[id].endTime) - W.now) \div MsPerSecond)

\* mutant: the value is not clamped at 0
Remaining_unclamped(W, id) ==
    Ceil(Num(W.timers[id].endTime) - W.now, MsPerSecond)

\* Math.max(0, Math.ceil((timers[id].endTime - Date.now()) / 1000))
Remaining(W, id) ==
    Max(0, Ceil(Num(W.timers[id].endTime) - W.now, MsPerSecond))

\* timers[id]?.interval is truthy
HasInterval(W, id) ==
    id \in DOMAIN W.timers /\ W.timers[id].interval # NULL

\* timers[id] = {...}
PutTimer(W, id, t) ==
    [W EXCEPT !.timers =
        [x \in (DOMAIN W.timers) \cup {id} |->
            IF x = id THEN t ELSE W.timers[x]]]

(* ---------------- side effects ---------------- *)
\* an exception is thrown
Raise(W) == [W EXCEPT !.thrown = TRUE]

\* the catch clause is entered
Catch(W) == [W EXCEPT !.thrown = FALSE]

\* the statement after W runs (giving X) unless an exception is propagating
Then(W, X) == IF W.thrown THEN W ELSE X

\* the try body of the play* methods: the AudioContext is constructed and
\* its oscillators started
startAudio(W) ==
    IF W.audio = "works" THEN [W EXCEPT !.played = @ + 1] ELSE Raise(W)

playBeep(W) ==
    LET B == startAudio(W)
    IN  IF B.thrown THEN Catch(B) ELSE B

playMelody(W) ==
    LET B == startAudio(W)
    IN  IF B.thrown THEN playBeep(Catch(B)) ELSE B

playCelebration(W) ==
    LET B == startAudio(W)
    IN  IF B.thrown THEN playMelody(Catch(B)) ELSE B

\* mutant: no try / catch around the audio calls
playWarning_noCatch(W) == startAudio(W)

playWarning(W) ==
    LET B == startAudio(W)
    IN  IF B.thrown THEN Catch(B) ELSE B

showNotification(W) ==
    IF W.message = "absent" THEN W ELSE [W EXCEPT !.shown = @ + 1]

sendSystemNotification(W) ==
    LET B == CASE W.notifications = "granted" ->
                      [W EXCEPT !.notified = @ + 1]
               [] W.notifications = "throws" -> Raise(W)
               [] OTHER -> W
    IN  IF B.thrown THEN Catch(B) ELSE B

(* ---------------- the handlers ---------------- *)
updateTimerButtons(W, id, state) ==
    IF id \in W.steps THEN [W EXCEPT !.buttons[id] = state] ELSE W

\* mutant: the warning sound is played without recording that it was
updateTimerDisplay_noFlag(W, id, remaining, total) ==
    IF id \notin W.steps THEN W
    ELSE
    LET W1 == [W EXCEPT !.timeText[id] = remaining,
                        !.classes[id] = @ \ {"warning", "critical"}]
    IN  IF remaining <= CriticalSeconds
        THEN LET W2 == [W1 EXCEPT
                            !.classes[id] = @ \cup {"critical"},
                            !.criticalEntries[id] =
                                IF "critical" \in W.classes[id]
                                THEN @ ELSE Bump(@)]
             IN  IF remaining = CriticalSeconds
                    /\ ~W2.timers[id].warningSoundPlayed
                 THEN playWarning([W2 EXCEPT !.warningSounds[id] = Bump(@)])
                 ELSE W2
        ELSE IF remaining <= WarningSeconds
             THEN [W1 EXCEPT !.classes[id] = @ \cup {"warning"}]
             ELSE W1

updateTimerDisplay(W, id, remaining, total) ==
    IF id \notin W.steps THEN W
    ELSE
    LET W1 == [W EXCEPT !.timeText[id] = remaining,
                        !.classes[id] = @ \ {"warning", "critical"}]
    IN  IF remaining <= CriticalSeconds
        THEN LET W2 == [W1 EXCEPT
                            !.classes[id] = @ \cup {"critical"},
                            !.criticalEntries[id] =
                                IF "critical" \in W.classes[id]
                                THEN @ ELSE Bump(@)]
             IN  IF remaining = CriticalSeconds
                    /\ ~W2.timers[id].warningSoundPlayed
                 THEN LET W3 == playWarning(
                                    [W2 EXCEPT !.warningSounds[id] = Bump(@)])
                      IN  Then(W3, [W3 EXCEPT
                                !.timers[id].warningSoundPlayed = TRUE])
                 ELSE W2
        ELSE IF remaining <= WarningSeconds
             THEN [W1 EXCEPT !.classes[id] = @ \cup {"warning"}]
             ELSE W1

\* mutant: a timer that finishes completes its step
timerFinished_completes(W, id) ==
    LET W1 == IF id \in W.steps
              THEN [W EXCEPT !.classes[id] =
                        (@ \ {"warning", "critical"}) \cup {"finished"}]
              ELSE W
        W2 == updateTimerButtons(W1, id, "stopped")
        W3 == showNotification([W2 EXCEPT !.finishedEvents[id] = Bump(@),
                                          !.completedSteps = @ \cup {id}])
        W4 == Then(W3, sendSystemNotification(W3))
    IN  Then(W4, playMelody(W4))

timerFinished(W, id) ==
    LET W1 == IF id \in W.steps
              THEN [W EXCEPT !.classes[id] =
                        (@ \ {"warning", "critical"}) \cup {"finished"}]
              ELSE W
        W2 == updateTimerButtons(W1, id, "stopped")
        W3 == showNotification([W2 EXCEPT !.finishedEvents[id] = Bump(@)])
        W4 == Then(W3, sendSystemNotification(W3))
    IN  Then(W4, playMelody(W4))

\* mutant: the handle is forgotten, its interval not cleared
stopTimerLoop_noClear(W, id) ==
    IF HasInterval(W, id)
    THEN [W EXCEPT !.timers[id].interval = NULL]
    ELSE W

stopTimerLoop(W, id) ==
    IF HasInterval(W, id)
    THEN [W EXCEPT !.live[id] = @ - 1, !.timers[id].interval = NULL]
    ELSE W

\* mutant: the callback counts the displayed value down by one per call
\* instead of reading the clock
intervalCallback_countdown(W, id) ==
    IF id \notin DOMAIN W.timers \/ W.timers[id].isPaused
    THEN W
    ELSE LET remaining == Max(0, W.timeText[id] - 1)
         IN  IF remaining > 0
             THEN updateTimerDisplay(W, id, remaining, W.timers[id].total)
             ELSE LET W1 == stopTimerLoop(W, id)
                      W2 == updateTimerDisplay(W1, id, 0, W1.timers[id].total)
                  IN  Then(W2, timerFinished(W2, id))

\* mutant: the callback only displays, it never ends the run
intervalCallback_noFinish(W, id) ==
    IF id \notin DOMAIN W.timers \/ W.timers[id].isPaused
    THEN W
    ELSE updateTimerDisplay(W, id, Remaining(W, id), W.timers[id].total)

\* the body of the setInterval callback of runTimerLoop
intervalCallback(W, id) ==
    IF id \notin DOMAIN W.timers \/ W.timers[id].isPaused
    THEN W
    ELSE LET remaining == Remaining(W, id)
         IN  IF remaining > 0
             THEN updateTimerDisplay(W, id, remaining, W.timers[id].total)
             ELSE LET W1 == stopTimerLoop(W, id)
                      W2 == updateTimerDisplay(W1, id, 0, W1.timers[id].total)
                  IN  Then(W2, timerFinished(W2, id))

runTimerLoop(W, id) ==
    [W EXCEPT !.timers[id].interval = HANDLE, !.live[id] = @ + 1]

\* mutant: the finish test does not look at the interval handle
updateTimerFromTimestamp_noHandleTest(W, id) ==
    IF id \notin DOMAIN W.timers \/ W.timers[id].isPaused
    THEN W
    ELSE LET remaining == Remaining(W, id)
             W1 == updateTimerDisplay(W, id, remaining, W.timers[id].total)
         IN  Then(W1, IF remaining = 0
                      THEN timerFinished(stopTimerLoop(W1, id), id)
                      ELSE W1)

updateTimerFromTimestamp(W, id) ==
    IF id \notin DOMAIN W.timers \/ W.timers[id].isPaused
    THEN W
    ELSE LET remaining == Remaining(W, id)
             W1 == updateTimerDisplay(W, id, remaining, W.timers[id].total)
         IN  Then(W1, IF remaining = 0 /\ W1.timers[id].interval # NULL
                      THEN timerFinished(stopTimerLoop(W1, id), id)
                      ELSE W1)

\* a run of a step's timer begins: its side-effect counters restart
NewRun(W, id) ==
    [W EXCEPT !.finishedEvents[id] = 0, !.warningSounds[id] = 0,
              !.criticalEntries[id] = 0]

\* mutant: the interval of the run in flight is not cleared
startTimer_noClear(W, id, minutes) ==
    LET totalSeconds == minutes * SecondsPerMinute
        endTime == W.now + totalSeconds * MsPerSecond
        W1 == PutTimer(NewRun(W, id), id,
                [endTime |-> endTime, total |-> totalSeconds,
                 interval |-> NULL, isPaused |-> FALSE,
                 pausedRemaining |-> NULL, startTime |-> W.now,
                 warningSoundPlayed |-> FALSE])
        W2 == updateTimerButtons(W1, id, "running")
        W3 == runTimerLoop(W2, id)
    IN  updateTimerFromTimestamp(W3, id)

startTimer(W, id, minutes) ==
    LET W0 == IF HasInterval(W, id)
              THEN [W EXCEPT !.live[id] = @ - 1]
              ELSE W
        totalSeconds == minutes * SecondsPerMinute
        endTime == W.now + totalSeconds * MsPerSecond
        W1 == PutTimer(NewRun(W0, id), id,
                [endTime |-> endTime, total |-> totalSeconds,
                 interval |-> NULL, isPaused |-> FALSE,
                 pausedRemaining |-> NULL, startTime |-> W.now,
                 warningSoundPlayed |-> FALSE])
        W2 == updateTimerButtons(W1, id, "running")
        W3 == runTimerLoop(W2, id)
    IN  updateTimerFromTimestamp(W3, id)

\* mutant: the snapshot is rounded down
pauseTimer_floor(W, id) ==
    IF ~HasInterval(W, id)
    THEN W
    ELSE LET remaining ==
                 Max(0, (Num(W.timers[id].endTime) - W.now) \div MsPerSecond)
             W1 == [W EXCEPT !.timers[id].pausedRemaining = remaining,
                             !.timers[id].isPaused = TRUE]
             W2 == stopTimerLoop(W1, id)
         IN  updateTimerButtons(W2, id, "paused")

\* mutant: the guard tests the timer, not its interval
pauseTimer_noHandleTest(W, id) ==
    IF id \notin DOMAIN W.timers
    THEN W
    ELSE LET remaining == Remaining(W, id)
             W1 == [W EXCEPT !.timers[id].pausedRemaining = remaining,
                             !.timers[id].isPaused = TRUE]
             W2 == stopTimerLoop(W1, id)
         IN  updateTimerButtons(W2, id, "paused")

pauseTimer(W, id) ==
    IF ~HasInterval(W, id)
    THEN W
    ELSE LET remaining == Remaining(W, id)
             W1 == [W EXCEPT !.timers[id].pausedRemaining = remaining,
                             !.timers[id].isPaused = TRUE]
             W2 == stopTimerLoop(W1, id)
         IN  updateTimerButtons(W2, id, "paused")

\* mutant: the snapshot is kept after the resume
resumeTimer_keepSnapshot(W, id) ==
    IF id \notin DOMAIN W.timers
       \/ ~W.timers[id].isPaused
       \/ W.timers[id].pausedRemaining = NULL
    THEN W
    ELSE LET W1 == [W EXCEPT
                        !.timers[id].endTime =
                            W.now + W.timers[id].pausedRemaining * MsPerSecond,
                        !.timers[id].isPaused = FALSE]
             W2 == updateTimerButtons(W1, id, "running")
         IN  runTimerLoop(W2, id)

resumeTimer(W, id) ==
    IF id \notin DOMAIN W.timers
       \/ ~W.timers[id].isPaused
       \/ W.timers[id].pausedRemaining = NULL
    THEN W
    ELSE LET W1 == [W EXCEPT
                        !.timers[id].endTime =
                            W.now + W.timers[id].pausedRemaining * MsPerSecond,
                        !.timers[id].isPaused = FALSE,
                        !.timers[id].pausedRemaining = NULL]
             W2 == updateTimerButtons(W1, id, "running")
         IN  runTimerLoop(W2, id)

\* mutant: the running interval is not stopped first
resetTimer_noStop(W, id, minutes) ==
    LET totalSeconds == minutes * SecondsPerMinute
        W1 == PutTimer(NewRun(W, id), id,
                [endTime |-> NULL, total |-> totalSeconds,
                 interval |-> NULL, isPaused |-> FALSE,
                 pausedRemaining |-> NULL, startTime |-> NULL,
                 warningSoundPlayed |-> FALSE])
        W2 == updateTimerDisplay(W1, id, totalSeconds, totalSeconds)
        W3 == Then(W2, updateTimerButtons(W2, id, "stopped"))
    IN  Then(W3, IF id \in W.steps
                 THEN [W3 EXCEPT !.classes[id] =
                           @ \ {"warning", "critical", "finished"}]
                 ELSE W3)

resetTimer(W, id, minutes) ==
    LET W0 == stopTimerLoop(W, id)
        totalSeconds == minutes * SecondsPerMinute
        W1 == PutTimer(NewRun(W0, id), id,
                [endTime |-> NULL, total |-> totalSeconds,
                 interval |-> NULL, isPaused |-> FALSE,
                 pausedRemaining |-> NULL, startTime |-> NULL,
                 warningSoundPlayed |-> FALSE])
        W2 == updateTimerDisplay(W1, id, totalSeconds, totalSeconds)
        W3 == Then(W2, updateTimerButtons(W2, id, "stopped"))
    IN  Then(W3, IF id \in W.steps
                 THEN [W3 EXCEPT !.classes[id] =
                           @ \ {"warning", "critical", "finished"}]
                 ELSE W3)

updateGlobalProgress(W) ==
    LET totalSteps == Cardinality(W.steps)
        completed == Cardinality(W.completedSteps)
        percentage == IF totalSteps > 0
                      THEN Fraction(completed * 100, totalSteps)
                      ELSE Fraction(0, 1)
        W1 == [W EXCEPT !.progressText = <<completed, totalSteps>>,
                        !.globalProgress = percentage]
    IN  IF completed = totalSteps /\ totalSteps > 0
        THEN LET W2 == showNotification(
                           [W1 EXCEPT !.celebrations = Bump(@)])
                 W3 == Then(W2, sendSystemNotification(W2))
             IN  Then(W3, playCelebration(W3))
        ELSE W1

\* the cards follow each other in the order of their ids
scrollToNextStep(W, currentEtapeId) ==
    IF /\ currentEtapeId \in W.steps
       /\ \E stepId \in W.steps :
              stepId > currentEtapeId /\ stepId \notin W.completedSteps
    THEN [W EXCEPT !.scrolls = @ + 1]
    ELSE W

\* mutant: the progress report is not refreshed
completeStep_noRefresh(W, id) ==
    LET W1 == IF HasInterval(W, id) THEN stopTimerLoop(W, id) ELSE W
        W2 == [W1 EXCEPT !.completedSteps = @ \cup {id}]
    IN  scrollToNextStep(W2, id)

\* mutant: the running interval is left scheduled
completeStep_noStop(W, id) ==
    LET W2 == [W EXCEPT !.completedSteps = @ \cup {id}]
        W3 == updateGlobalProgress(W2)
    IN  Then(W3, scrollToNextStep(W3, id))

completeStep(W, id) ==
    LET W1 == IF HasInterval(W, id) THEN stopTimerLoop(W, id) ELSE W
        W2 == [W1 EXCEPT !.completedSteps = @ \cup {id}]
        W3 == updateGlobalProgress(W2)
    IN  Then(W3, scrollToNextStep(W3, id))

\* Object.keys(timers).forEach(...) of handleVisibilityChange, keys ascending
RECURSIVE resyncAll(_, _)
resyncAll(W, ids) ==
    IF ids = {} THEN W
    ELSE LET id == CHOOSE x \in ids : \A y \in ids : x <= y
             t == W.timers[id]
             W1 == IF ~t.isPaused /\ t.endTime # NULL /\ t.endTime # 0
                   THEN updateTimerFromTimestamp(W, id)
                   ELSE W
         IN  Then(W1, resyncAll(W1, ids \ {id}))

\* documentHidden: document.hidden as the listener reads it
handleVisibilityChange(W, documentHidden) ==
    IF ~documentHidden THEN resyncAll(W, DOMAIN W.timers) ELSE W

\* Object.keys(timers).forEach(id => stopTimerLoop(id)), keys ascending
RECURSIVE stopAll(_, _)
stopAll(W, ids) ==
    IF ids = {} THEN W
    ELSE LET id == CHOOSE x \in ids : \A y \in ids : x <= y
         IN  stopAll(stopTimerLoop(W, id), ids \ {id})

\* the beforeunload listener; the page is left
beforeUnload(W) ==
    [stopAll(W, DOMAIN W.timers) EXCEPT !.unloaded = TRUE]

(* ---------------- the counter variant ---------------- *)
\* the page of the counter variant after DOMContentLoaded, with the count
\* of the seconds at which the host delivered, or dropped, the callbacks
CounterLoaded(stepIds) ==
    [timers |-> << >>,
     live |-> [id \in ArgIds |-> 0],
     timeText |-> [id \in stepIds |-> NULL],
     classes |-> [id \in stepIds |-> {}],
     buttons |-> [id \in stepIds |-> "stopped"],
     finishedEvents |-> [id \in ArgIds |-> 0],
     ticks |-> 0, dropped |-> 0]

\* updateTimerDisplay of the counter variant
updateTimerDisplayCounter(C, id) ==
    IF id \notin DOMAIN C.timers THEN C
    ELSE LET remaining == C.timers[id].remaining
             cleared == C.classes[id] \ {"warning", "critical"}
         IN  [C EXCEPT
                 !.timeText[id] = remaining,
                 !.classes[id] =
                     IF remaining <= CriticalSeconds
                     THEN cleared \cup {"critical"}
                     ELSE IF remaining <= WarningSeconds
                          THEN cleared \cup {"warning"}
                          ELSE cleared]

\* timerFinished of the counter variant
timerFinishedCounter(C, id) ==
    [C EXCEPT !.classes[id] = (@ \ {"warning", "critical"}) \cup {"finished"},
              !.buttons[id] = "stopped",
              !.finishedEvents[id] = Bump(@)]

\* mutant: the callback that brings the counter to 0 finishes the timer
counterCallback_finishAtZero(C, id) ==
    LET C1 == IF C.timers[id].remaining > 0
              THEN updateTimerDisplayCounter(
                       [C EXCEPT !.timers[id].remaining = @ - 1], id)
              ELSE C
    IN  IF C1.timers[id].remaining > 0
        THEN C1
        ELSE timerFinishedCounter(
                 [C1 EXCEPT !.live[id] = @ - 1,
                            !.timers[id].interval = NULL], id)

\* the setInterval callback of startTimer and resumeTimer of the counter
\* variant
counterCallback(C, id) ==
    IF C.timers[id].remaining > 0
    THEN updateTimerDisplayCounter(
             [C EXCEPT !.timers[id].remaining = @ - 1], id)
    ELSE timerFinishedCounter(
             [C EXCEPT !.live[id] = @ - 1,
                       !.timers[id].interval = NULL], id)

\* startTimer of the counter variant, for a step with a card
startTimerCounter(C, id, minutes) ==
    LET C0 == IF id \in DOMAIN C.timers /\ C.timers[id].interval # NULL
              THEN [C EXCEPT !.live[id] = @ - 1]
              ELSE C
        totalSeconds == minutes * SecondsPerMinute
        C1 == [C0 EXCEPT !.timers =
                  [x \in (DOMAIN C0.timers) \cup {id} |->
                      IF x = id
                      THEN [remaining |-> totalSeconds, total |-> totalSeconds,
                            interval |-> NULL, isPaused |-> FALSE]
                      ELSE C0.timers[x]]]
    IN  [C1 EXCEPT !.buttons[id] = "running",
                   !.timers[id].interval = HANDLE,
                   !.live[id] = @ + 1,
                   !.ticks = 0, !.dropped = 0]

(* ---------------- the state machine ---------------- *)
\* the page after DOMContentLoaded: no timer, nothing completed, and
\* updateGlobalProgress() has written "0 / n"
Loaded(stepIds) ==
    /\ now = Epoch
    /\ advances = 0
    /\ steps = stepIds
    /\ timers = << >>
    /\ live = [id \in ArgIds |-> 0]
    /\ timeText = [id \in stepIds |-> NULL]
    /\ classes = [id \in stepIds |-> {}]
    /\ buttons = [id \in stepIds |-> "stopped"]
    /\ completedSteps = {}
    /\ progressText = <<0, Cardinality(stepIds)>>
    /\ globalProgress = Fraction(0, 1)
    /\ finishedEvents = [id \in ArgIds |-> 0]
    /\ warningSounds = [id \in ArgIds |-> 0]
    /\ criticalEntries = [id \in ArgIds |-> 0]
    /\ celebrations = 0
    /\ unloaded = FALSE
    /\ audio = "works"
    /\ notifications = "granted"
    /\ message = "present"
    /\ counter = CounterLoaded(stepIds)

\* a page with one timed step
Init == Loaded({1})

\* a session page with NumSteps timed steps
InitSession == Loaded(1 .. NumSteps)

\* the clock moves on; no handler runs
Advance(g) ==
    /\ advances < MaxAdvances
    /\ advances' = advances + 1
    /\ Becomes([World EXCEPT !.now = @ + g])

\* the page is suspended for a long time, then runs again
Suspend ==
    /\ advances < MaxSuspensions
    /\ advances' = advances + 1
    /\ Becomes([World EXCEPT !.now = @ + SuspensionGap])

StartTimer(id, minutes) ==
    /\ Becomes(startTimer(World, id, minutes))
    /\ UNCHANGED advances

\* the host delivers one callback of a scheduled interval of the step
Tick(id) ==
    /\ live[id] > 0
    /\ Becomes(intervalCallback(World, id))
    /\ UNCHANGED advances

PauseTimer(id) ==
    /\ Becomes(pauseTimer(World, id))
    /\ UNCHANGED advances

ResumeTimer(id) ==
    /\ Becomes(resumeTimer(World, id))
    /\ UNCHANGED advances

ResetTimer(id, minutes) ==
    /\ Becomes(resetTimer(World, id, minutes))
    /\ UNCHANGED advances

CompleteStep(id) ==
    /\ Becomes(completeStep(World, id))
    /\ UNCHANGED advances

\* the visibilitychange event, towards hidden or back to the foreground
VisibilityChange(documentHidden) ==
    /\ Becomes(handleVisibilityChange(World, documentHidden))
    /\ UNCHANGED advances

BeforeUnload ==
    /\ Becomes(beforeUnload(World))
    /\ UNCHANGED advances

\* the browser's audio, the notification permission or the page change
Environment(a, n, m) ==
    /\ Becomes([World EXCEPT !.audio = a, !.notifications = n,
                             !.message = m])
    /\ UNCHANGED advances

\* the page is suspended for half a minute, then runs again
Wait ==
    /\ advances < MaxSuspensions
    /\ advances' = advances + 1
    /\ Becomes([World EXCEPT !.now = @ + HalfMinute])

Handlers ==
    \/ \E id \in steps, m \in Minutes : StartTimer(id, m)
    \/ \E id \in steps : Tick(id)
    \/ \E id \in steps : PauseTimer(id)
    \/ \E id \in steps : ResumeTimer(id)
    \/ \E id \in steps, m \in Minutes : ResetTimer(id, m)
    \/ \E id \in steps : CompleteStep(id)
    \/ \E h \in BOOLEAN : VisibilityChange(h)

\* one step, the clock read at sub-second and at long gaps, the page
\* staying open
Next ==
    \/ \E g \in Gaps : Advance(g)
    \/ Handlers

Spec == Init /\ [][Next]_vars

\* several steps, the clock read after long suspensions only
NextSession ==
    \/ Suspend
    \/ Handlers
    \/ BeforeUnload

SpecSession == InitSession /\ [][NextSession]_vars

\* a page with no card, one card, ... NumSteps cards
InitPage == \E n \in 0 .. NumSteps : Loaded(1 .. n)

\* the clock held still, the handlers called with the ids of the page and
\* completeStep with any id
NextPage ==
    \/ Handlers
    \/ \E id \in ArgIds \ steps : CompleteStep(id)

SpecPage == InitPage /\ [][NextPage]_vars

\* one step, the clock read every half minute, the side effects working,
\* failing or missing
NextDispatch ==
    \/ Wait
    \/ Handlers
    \/ BeforeUnload
    \/ \E a \in AudioOutcomes, n \in NotificationOutcomes,
          m \in MessageOutcomes : Environment(a, n, m)

SpecDispatch == Init /\ [][NextDispatch]_vars

\* the user starts timers during the first minutes of the session only
Early == now < Epoch + MaxSuspensions * HalfMinute

\* time passes: during the first minutes, and later for as long as a
\* running timer waits for its end
Elapse ==
    /\ \/ Early
       \/ \E id \in steps :
              HasInterval(World, id) /\ now < timers[id].endTime
    /\ Becomes([World EXCEPT !.now = @ + HalfMinute])
    /\ UNCHANGED advances

\* a callback of the step's interval is delivered at or after the endTime
LateTick(id) ==
    /\ HasInterval(World, id)
    /\ now >= timers[id].endTime
    /\ Tick(id)

\* one step; the clock keeps advancing while a timer runs, and the host,
\* which may drop or delay callbacks, delivers one at or after the endTime
NextLive ==
    \/ Elapse
    \/ \E id \in steps, m \in Minutes : Early /\ StartTimer(id, m)
    \/ \E id \in steps : Tick(id)
    \/ \E id \in steps : PauseTimer(id)
    \/ \E id \in steps : ResumeTimer(id)
    \/ \E id \in steps, m \in Minutes : ResetTimer(id, m)
    \/ \E id \in steps : CompleteStep(id)
    \/ \E h \in BOOLEAN : VisibilityChange(h)

SpecLive ==
    /\ Init /\ [][NextLive]_vars
    /\ WF_vars(Elapse)
    /\ \A id \in ArgIds : WF_vars(LateTick(id))

(* ---------------- states of a step's timer ---------------- *)
Present(id) == id \in DOMAIN timers

\* Running: a callback is scheduled
Running(id) == Present(id) /\ timers[id].interval # NULL

Paused(id) == Present(id) /\ timers[id].isPaused

\* Finished: the run has emitted its finished event
Finished(id) ==
    Present(id) /\ ~Running(id) /\ ~Paused(id) /\ finishedEvents[id] > 0

\* Stopped: never started, reset, or halted before expiry
Stopped(id) == ~Running(id) /\ ~Paused(id) /\ ~Finished(id)

\* the run was never shifted by a pause / resume
Unshifted(id) ==
    timers[id].endTime =
        timers[id].startTime + timers[id].total * MsPerSecond

\* whole seconds left at clock reading t before endTime e, rounded up
SecondsLeft(e, t) ==
    IF t >= e THEN 0 ELSE ((e - t - 1) \div MsPerSecond) + 1

\* Halted: a run stopped before its finished event (Stopped, but started)
Halted(id) ==
    /\ Present(id) /\ ~Running(id) /\ ~Paused(id)
    /\ timers[id].endTime # NULL
    /\ finishedEvents[id] = 0

\* the step has a card on the page
Card(id) == id \in steps

(* ---------------- claims ---------------- *)

\* C1: drift invariance. For a Running timer the value a callback or a
\* resync reports is the number of whole seconds (rounded up) between the
\* clock reading and the end timestamp, whatever was delivered before; in a
\* run without pause that is total minus the whole seconds elapsed since the
\* start; once the reading is at or past the end timestamp it reports 0 and
\* the timer is Finished (interval cancelled, finished emitted).
C1_DriftInvariance ==
    \A id \in steps :
        Running(id) =>
            LET t == timers[id]
                left == SecondsLeft(t.endTime, now)
                A == intervalCallback(World, id)
                B == handleVisibilityChange(World, FALSE)
                Done(W) == /\ W.timers[id].interval = NULL
                           /\ W.live[id] = 0
                           /\ W.finishedEvents[id] = 1
                Going(W) == /\ W.timers[id].interval # NULL
                            /\ W.timers[id].endTime = t.endTime
                            /\ W.finishedEvents[id] = 0
            IN  /\ A.timeText[id] = left
                /\ B.timeText[id] = left
                /\ Unshifted(id) =>
                     left = Max(0, t.total - ((now - t.startTime) \div MsPerSecond))
                /\ IF now >= t.endTime
                   THEN Done(A) /\ Done(B)
                   ELSE Going(A) /\ Going(B)

\* reached: a one-minute run that finished without any callback having seen
\* the 30-second mark (the clock jumped over it)
C1_Witness ==
    \E id \in steps :
        /\ Finished(id)
        /\ timers[id].total = SecondsPerMinute
        /\ Unshifted(id)
        /\ timeText[id] = 0
        /\ ~timers[id].warningSoundPlayed

\* C2: in one run the finished event is emitted at most once; a Running
\* timer has not emitted it yet, and the callback or the resync that first
\* reads the clock at or past the end timestamp emits it once, with the
\* interval cancelled.
C2_FinishedOnce ==
    \A id \in steps :
        /\ finishedEvents[id] <= 1
        /\ Running(id) => finishedEvents[id] = 0
        /\ (Running(id) /\ now >= timers[id].endTime) =>
             LET A == intervalCallback(World, id)
                 B == handleVisibilityChange(World, FALSE)
             IN  /\ A.finishedEvents[id] = 1 /\ A.live[id] = 0
                 /\ B.finishedEvents[id] = 1 /\ B.live[id] = 0

\* reached: a one-minute run that was paused on the way and has finished
C2_Witness ==
    \E id \in steps :
        /\ Finished(id)
        /\ timers[id].total = SecondsPerMinute
        /\ ~Unshifted(id)
        /\ finishedEvents[id] = 1

\* C3: the session-complete side effect fires exactly once, on the
\* completeStep call that makes completed = total; a later completeStep on a
\* step already completed fires nothing and leaves the completed set alone.
C3_SessionCompleteOnce ==
    /\ celebrations <= 1
    /\ Cardinality(completedSteps) = Cardinality(steps) => celebrations = 1
    /\ \A id \in completedSteps :
           LET W == completeStep(World, id)
           IN  /\ W.celebrations = celebrations
               /\ W.completedSteps = completedSteps

\* what a handler left of a step: its timer, its widgets, its interval and
\* its side-effect counters
StepView(W, id) ==
    [timer |-> IF id \in DOMAIN W.timers THEN <<W.timers[id]>> ELSE << >>,
     live |-> W.live[id], timeText |-> W.timeText[id],
     classes |-> W.classes[id], buttons |-> W.buttons[id],
     finishedEvents |-> W.finishedEvents[id],
     warningSounds |-> W.warningSounds[id],
     criticalEntries |-> W.criticalEntries[id]]

\* the foreground resync brings every Running timer up to date in the call:
\* the value displayed is the one read from the clock, and a timer whose end
\* timestamp has passed is Finished with its finished event emitted
ResyncsRunning(W, id) ==
    Running(id) =>
        /\ W.timeText[id] = SecondsLeft(timers[id].endTime, now)
        /\ IF now >= timers[id].endTime
           THEN /\ W.timers[id].interval = NULL
                /\ W.live[id] = 0
                /\ W.buttons[id] = "stopped"
                /\ W.finishedEvents[id] = finishedEvents[id] + 1
           ELSE /\ W.timers[id].interval # NULL
                /\ W.finishedEvents[id] = finishedEvents[id]

\* C4: when the page regains the foreground, every Running timer is
\* resynced in that call (Finished, with its side effects, when its end
\* timestamp has passed), and Paused and Stopped timers are left unchanged.
C4_ForegroundResync ==
    LET W == handleVisibilityChange(World, FALSE)
    IN  \A id \in steps :
            /\ ResyncsRunning(W, id)
            /\ (Paused(id) \/ Stopped(id)) => StepView(W, id) = StepView(World, id)

\* C5: whatever the step's timer was before, startTimer with a positive
\* duration leaves it Running with one scheduled interval, total = d,
\* endTime = now + d, not paused, no snapshot, the warning flag clear and no
\* warning played, and d displayed.
C5_StartTimer ==
    \A id \in steps : \A m \in Minutes :
        m > 0 =>
            LET W == startTimer(World, id, m)
                t == W.timers[id]
                d == m * SecondsPerMinute
            IN  /\ t.interval # NULL
                /\ W.live[id] = 1
                /\ t.total = d
                /\ t.endTime = now + d * MsPerSecond
                /\ ~t.isPaused
                /\ t.pausedRemaining = NULL
                /\ ~t.warningSoundPlayed
                /\ W.warningSounds[id] = 0
                /\ W.finishedEvents[id] = 0
                /\ W.timeText[id] = d
                /\ W.buttons[id] = "running"

\* reached: a timer started again after its previous run had finished (the
\* display still carries the finished class of that run)
C5_Witness ==
    \E id \in steps :
        /\ Running(id)
        /\ timers[id].startTime = now
        /\ timers[id].total > 0
        /\ timeText[id] = timers[id].total
        /\ "finished" \in classes[id]

\* C6: for a Running timer, pauseTimer then resumeTimer at the same clock
\* reading leaves the displayed value as it was, leaves the value the next
\* callback will display as it was, and returns the timer to Running with
\* exactly one scheduled interval and no snapshot.
C6_PauseResume ==
    \A id \in steps :
        Running(id) =>
            LET P == pauseTimer(World, id)
                R == resumeTimer(P, id)
            IN  /\ P.timers[id].isPaused
                /\ P.live[id] = 0
                /\ P.timeText[id] = timeText[id]
                /\ R.timeText[id] = timeText[id]
                /\ Remaining(R, id) = SecondsLeft(timers[id].endTime, now)
                /\ R.timers[id].endTime >= timers[id].endTime
                /\ R.timers[id].endTime < timers[id].endTime + MsPerSecond
                     \/ now >= timers[id].endTime
                /\ R.timers[id].interval # NULL
                /\ R.live[id] = 1
                /\ ~R.timers[id].isPaused
                /\ R.timers[id].pausedRemaining = NULL
                /\ R.buttons[id] = "running"

\* reached: a Running timer resumed at this clock reading from a snapshot
\* taken between two whole seconds (its end timestamp was moved)
C6_Witness ==
    \E id \in steps :
        /\ Running(id)
        /\ ~Unshifted(id)
        /\ timers[id].total > 0
        /\ (timers[id].endTime - now) % MsPerSecond = 0
        /\ (timers[id].endTime - timers[id].startTime) % MsPerSecond # 0
        /\ timeText[id] * MsPerSecond = timers[id].endTime - now

\* C7: pauseTimer on a timer that is not Running and resumeTimer on a timer
\* that is not Paused change nothing at all.
C7_InvalidStateNoOp ==
    \A id \in steps :
        /\ ~Running(id) => pauseTimer(World, id) = World
        /\ ~Paused(id) => resumeTimer(World, id) = World

\* reached: a Finished timer (neither pause nor resume is legal) next to
\* which the clock has moved on
C7_Witness ==
    \E id \in steps :
        /\ Finished(id)
        /\ timers[id].total > 0
        /\ now > timers[id].endTime

C9_CriticalEntryOnce ==
    \A id \in steps :
        (/\ Present(id)
         /\ timers[id].total > CriticalSeconds
         /\ timers[id].warningSoundPlayed)
        => criticalEntries[id] = 1

\* C10: within one run the warning sound is played at most once.
C10_WarningOnce ==
    \A id \in steps : warningSounds[id] <= 1

\* reached: a run that has played the warning, was paused and resumed, and
\* is Running with 30 seconds left and 30 displayed
C10_Witness ==
    \E id \in steps :
        /\ Running(id)
        /\ ~Unshifted(id)
        /\ warningSounds[id] = 1
        /\ timers[id].warningSoundPlayed
        /\ timeText[id] = CriticalSeconds
        /\ SecondsLeft(timers[id].endTime, now) = CriticalSeconds

\* C11: progress report. After any sequence of completeStep calls the page
\* shows completed = the number of distinct completed step ids, total = the
\* number of step cards, and a bar at completed / total of its width (in
\* percent), at 0 when there is no card.
C11_Progress ==
    LET completed == Cardinality(completedSteps)
        total == Cardinality(steps)
    IN  /\ progressText = <<completed, total>>
        /\ globalProgress[2] > 0
        /\ total = 0 => globalProgress[1] = 0
        /\ total > 0 =>
               globalProgress[1] * total = 100 * completed * globalProgress[2]

\* one card of the page is completed, the others are not
C11_Witness ==
    /\ Cardinality(steps) = NumSteps
    /\ completedSteps \subseteq steps
    /\ progressText[1] = 1
    /\ globalProgress = Fraction(100, NumSteps)

\* a page without cards on which a step was completed
C11_WitnessNoCard ==
    steps = {} /\ completedSteps # {} /\ globalProgress[1] = 0

\* C12: completeStep is idempotent. Called with a step id that is already
\* in completedSteps it changes nothing (completed set, progress report,
\* timers) and requests no side effect (session-complete notification,
\* scroll to the next step).
C12_CompleteIdempotent ==
    \A id \in completedSteps : completeStep(World, id) = World

\* C13: completeStep on a step whose timer is Running cancels the scheduled
\* interval, records the completion and emits no finished event; and while
\* the timer is not started again no callback is scheduled for it and no
\* visibility resync (nor pause, resume or a further completeStep) emits
\* the finished event or schedules a callback, also past its endTime.
C13_CompleteHaltsRunning ==
    \A id \in steps :
        /\ Running(id) =>
               LET W == completeStep(World, id)
               IN  /\ W.timers[id].interval = NULL
                   /\ W.live[id] = 0
                   /\ id \in W.completedSteps
                   /\ W.finishedEvents[id] = 0
                   /\ W.timers[id].endTime = timers[id].endTime
        /\ (id \in completedSteps /\ Halted(id)) =>
               /\ live[id] = 0
               /\ \A W \in {handleVisibilityChange(World, FALSE),
                             handleVisibilityChange(World, TRUE),
                             pauseTimer(World, id), resumeTimer(World, id),
                             completeStep(World, id)} :
                      /\ W.finishedEvents[id] = 0
                      /\ W.live[id] = 0
                      /\ W.timers[id].interval = NULL

\* a step completed while its timer ran, resynchronised after endTime:
\* the display is at 0 and no finished event was emitted
C13_Witness ==
    \E id \in steps :
        /\ id \in completedSteps /\ Halted(id)
        /\ timers[id].total > 0
        /\ now > timers[id].endTime
        /\ timeText[id] = 0

\* C14: a non-positive duration given to startTimer or resetTimer is
\* rejected before any mutation (timers, display, intervals unchanged, no
\* finished event), so every timer of the map has total > 0.
C14_DurationRejected ==
    /\ \A id \in steps, minutes \in Minutes :
           minutes <= 0 =>
               /\ startTimer(World, id, minutes) = World
               /\ resetTimer(World, id, minutes) = World
    /\ \A id \in DOMAIN timers : timers[id].total > 0

\* C15: a start, pause, resume, reset or complete that names a step id of
\* no card of the page is refused: it raises an error (UnknownStep) to its
\* caller and leaves the timers map and completedSteps as they were.
C15_UnknownStepRejected ==
    \A id \in ArgIds \ steps, minutes \in Minutes :
        \A W \in {startTimer(World, id, minutes), pauseTimer(World, id),
                  resumeTimer(World, id), resetTimer(World, id, minutes),
                  completeStep(World, id)} :
            /\ W.thrown
            /\ W.timers = timers
            /\ W.completedSteps = completedSteps

\* C16: resetTimer and the beforeunload teardown cancel the scheduled
\* interval of each timer they touch: after either, no callback scheduled
\* earlier is left for the step, and in every state a callback is scheduled
\* for a step only while its timer is Running (one callback, of the
\* current run), so none can fire for a timer reset and not started again.
C16_NoStaleCallback ==
    /\ \A id \in ArgIds : live[id] = IF Running(id) THEN 1 ELSE 0
    /\ \A id \in steps, minutes \in Minutes :
           LET W == resetTimer(World, id, minutes)
           IN  W.live[id] = 0 /\ W.timers[id].interval = NULL
    /\ LET W == beforeUnload(World)
       IN  \A id \in DOMAIN W.timers :
               W.live[id] = 0 /\ W.timers[id].interval = NULL
    /\ unloaded => \A id \in ArgIds : live[id] = 0

\* the page was left while a timer was running
C16_Witness ==
    /\ unloaded
    /\ \E id \in steps : Halted(id) /\ id \notin completedSteps

\* the timer of the step is Finished in world W
FinishedIn(W, id) ==
    /\ id \in DOMAIN W.timers
    /\ W.timers[id].interval = NULL
    /\ ~W.timers[id].isPaused
    /\ W.finishedEvents[id] > 0

\* what pauseTimer, resumeTimer, completeStep and the visibility change
\* make of the current state
AfterPassiveCall(id) ==
    {pauseTimer(World, id), resumeTimer(World, id), completeStep(World, id),
     handleVisibilityChange(World, FALSE),
     handleVisibilityChange(World, TRUE)}

\* C18 (as amended): once a timer has emitted finished, no callback is
\* scheduled for it, and pauseTimer, resumeTimer, a visibility resync and
\* completeStep leave it Finished with the same timer record and no further
\* finished event; resetTimer moves it to Stopped; startTimer begins a
\* new run, which is Running for a positive duration and finished at once
\* for the duration 0.
C18_FinishedUntilResetOrStart ==
    \A id \in steps :
        Finished(id) =>
            /\ live[id] = 0
            /\ \A W \in AfterPassiveCall(id) :
                   /\ FinishedIn(W, id)
                   /\ W.timers[id] = timers[id]
                   /\ W.finishedEvents[id] = finishedEvents[id]
            /\ \A minutes \in Minutes :
                   LET W == resetTimer(World, id, minutes)
                   IN  /\ W.timers[id].interval = NULL
                       /\ ~W.timers[id].isPaused
                       /\ W.timers[id].endTime = NULL
                       /\ W.finishedEvents[id] = 0
            /\ \A minutes \in Minutes :
                   LET W == startTimer(World, id, minutes)
                   IN  /\ W.timers[id].startTime = now
                       /\ minutes > 0 =>
                              /\ W.timers[id].interval # NULL
                              /\ W.finishedEvents[id] = 0
                       /\ minutes = 0 =>
                              /\ FinishedIn(W, id)
                              /\ W.finishedEvents[id] = 1

\* a run that expired and emitted its finished event
C18_Witness ==
    \E id \in steps :
        /\ Finished(id)
        /\ timers[id].total > 0
        /\ now >= timers[id].endTime

\* C18 (as stated): once a timer has emitted finished, every operation
\* other than resetTimer, startTimer included, leaves it Finished.
C18_FinishedTerminal ==
    \A id \in steps :
        Finished(id) =>
            /\ live[id] = 0
            /\ \A W \in AfterPassiveCall(id) : FinishedIn(W, id)
            /\ \A minutes \in Minutes :
                   LET W == startTimer(World, id, minutes)
                   IN  /\ FinishedIn(W, id)
                       /\ W.timers[id] = timers[id]

\* C19: no dangling active timer for a completed step. In every reachable
\* state the timer of a step in completedSteps has no scheduled interval,
\* also when start or resume is called after the completion.
C19_NoRunningCompleted ==
    \A id \in completedSteps :
        ~Running(id) /\ live[id] = 0

\* C20: in every reachable state completedSteps holds only ids of cards of
\* the page and is no larger than the number of cards, whatever ids
\* completeStep is called with.
C20_CompletedWithinSteps ==
    /\ completedSteps \subseteq steps
    /\ Cardinality(completedSteps) <= Cardinality(steps)

\* the current state in a browser whose side effects all work
Working ==
    [World EXCEPT !.audio = "works", !.notifications = "granted",
                  !.message = "present"]

\* timer states, displayed values, completed set and progress, and the
\* side-effect requests counted
TimerState(W) ==
    [now |-> W.now, steps |-> W.steps, timers |-> W.timers, live |-> W.live,
     timeText |-> W.timeText, classes |-> W.classes, buttons |-> W.buttons,
     completedSteps |-> W.completedSteps, progressText |-> W.progressText,
     globalProgress |-> W.globalProgress,
     finishedEvents |-> W.finishedEvents, warningSounds |-> W.warningSounds,
     criticalEntries |-> W.criticalEntries, celebrations |-> W.celebrations,
     unloaded |-> W.unloaded, scrolls |-> W.scrolls]

\* two results of a handler: no exception left either call, and they agree
\* on the timer state
SameOutcome(A, B) ==
    ~A.thrown /\ ~B.thrown /\ TimerState(A) = TimerState(B)

\* C17: timer state is independent of side-effect outcomes. In every
\* reachable state, whatever the audio, the system notifications and the
\* in-app message do (work, throw inside the dispatcher, or are absent),
\* every handler returns without an exception and leaves the same timer
\* states, displayed values, completed set and progress as it does where
\* all of them work; so executions of the same operations and clock
\* readings that differ in these outcomes go through the same states.
C17_SideEffectIndependence ==
    /\ \A id \in steps :
           /\ SameOutcome(intervalCallback(World, id),
                          intervalCallback(Working, id))
           /\ SameOutcome(pauseTimer(World, id), pauseTimer(Working, id))
           /\ SameOutcome(resumeTimer(World, id), resumeTimer(Working, id))
           /\ SameOutcome(completeStep(World, id),
                          completeStep(Working, id))
           /\ \A minutes \in Minutes :
                  /\ SameOutcome(startTimer(World, id, minutes),
                                 startTimer(Working, id, minutes))
                  /\ SameOutcome(resetTimer(World, id, minutes),
                                 resetTimer(Working, id, minutes))
    /\ \A h \in BOOLEAN :
           SameOutcome(handleVisibilityChange(World, h),
                       handleVisibilityChange(Working, h))
    /\ SameOutcome(beforeUnload(World), beforeUnload(Working))

\* a run gave its warning at 30 s and finished, the session is complete,
\* in a browser where every side effect fails or is missing
C17_Witness ==
    /\ audio # "works" /\ notifications = "throws" /\ message = "absent"
    /\ celebrations > 0
    /\ \E id \in steps :
           Finished(id) /\ warningSounds[id] = 1 /\ timers[id].total > 0

\* C21: the paused snapshot and the end timestamp are gated by the state.
\* For every timer of the map, pausedRemaining is set if and only if
\* isPaused is true; a Paused timer has no scheduled interval; a timer with
\* a scheduled interval has an endTime and no pausedRemaining.
C21_SnapshotGated ==
    \A id \in DOMAIN timers :
        LET t == timers[id]
        IN  /\ (t.pausedRemaining # NULL) <=> t.isPaused
            /\ t.isPaused => (t.interval = NULL /\ live[id] = 0)
            /\ t.interval # NULL =>
                   (t.endTime # NULL /\ t.pausedRemaining = NULL)

\* a timer paused for the second time in its run
C21_Witness ==
    \E id \in steps :
        /\ Paused(id)
        /\ timers[id].pausedRemaining > 0
        /\ ~Unshifted(id)

\* C22: the completed set is changed by completeStep only. startTimer,
\* pauseTimer, resumeTimer, resetTimer, an interval callback (expiry
\* included), the visibility resync and the teardown leave completedSteps
\* as it is; completeStep adds its argument and removes nothing, so the set
\* is never emptied (the script has no session reset).
C22_CompletedFrame ==
    /\ [](beforeUnload(World).completedSteps = completedSteps)
    /\ [][\/ completedSteps' = completedSteps
          \/ \E id \in steps :
                 /\ CompleteStep(id)
                 /\ completedSteps' = completedSteps \cup {id}]_vars

\* a completed step whose timer was started again and is at its expiry
C22_Witness ==
    \E id \in completedSteps :
        Running(id) /\ now >= timers[id].endTime /\ timers[id].total > 0

\* C23: no early finish. A handler emits the finished event for a step
\* only if that step's timer is Running (interval scheduled, not paused)
\* and the clock is at or past its endTime; a Paused or Stopped timer emits
\* none, whatever the clock reads, and has no callback scheduled. A finished
\* event emitted by startTimer itself belongs to the run it has just
\* scheduled, whose endTime is the current reading.
C23_NoEarlyFinish ==
    /\ [](\A id \in steps :
            /\ ~Running(id) => live[id] = 0
            /\ finishedEvents[id] > 0 =>
                   Present(id) /\ now >= timers[id].endTime)
    /\ [][\A id \in steps :
             finishedEvents'[id] > finishedEvents[id] =>
                 \/ /\ Running(id) /\ ~Paused(id)
                    /\ now >= timers[id].endTime
                 \/ /\ \E minutes \in Minutes : StartTimer(id, minutes)
                    /\ now' >= timers'[id].endTime]_vars

\* a timer kept paused while the clock went past its endTime
C23_Witness ==
    \E id \in steps :
        /\ Paused(id)
        /\ now > timers[id].endTime
        /\ finishedEvents[id] = 0

\* the user pauses, resets, restarts or completes the step
Interrupts(id) ==
    \/ PauseTimer(id)
    \/ CompleteStep(id)
    \/ \E m \in Minutes : StartTimer(id, m) \/ ResetTimer(id, m)

\* C24: liveness. While the clock keeps advancing and the host keeps
\* delivering callbacks of a scheduled interval (each after any finite
\* delay), a Running timer does not stay Running for ever, and it stops
\* being Running only by becoming Finished or by a pause, reset, restart or
\* completion: so a Running timer that is not interrupted eventually
\* becomes Finished, its finished event emitted. (The page of SpecLive
\* holds one step, so "some timer runs" and "no timer runs" are about the
\* same timer.)
C24_EventuallyFinished ==
    /\ (\E id \in steps : Running(id)) ~> (\A id \in steps : ~Running(id))
    /\ [][\A id \in steps :
             (Running(id) /\ ~Running(id)') =>
                 \/ Finished(id)' /\ finishedEvents'[id] = 1
                 \/ Interrupts(id)]_vars

\* a run that was paused and resumed on its way has finished
C24_Witness ==
    \E id \in steps :
        Finished(id) /\ timers[id].total > 0 /\ ~Unshifted(id)

\* the scheduled intervals of the step are the one its timer records
OneInterval(W, id) ==
    W.live[id] = IF HasInterval(W, id) THEN 1 ELSE 0

\* C25: each step has at most one scheduled interval, the one recorded in
\* timers[id].interval, in every reachable state, whatever the handlers that
\* led to it (a start over a Running or a Paused timer and a repeated
\* resume among them); the number of scheduled intervals of a step rises
\* only from 0 to 1, in a step that makes the timer Running.
C25_SingleInterval ==
    /\ [](\A id \in ArgIds : OneInterval(World, id) /\ live[id] <= 1)
    /\ [][\A id \in steps :
             live'[id] > live[id] =>
                 /\ live[id] = 0 /\ live'[id] = 1
                 /\ ~Running(id) /\ Running(id)']_vars

\* a timer resumed after a pause is running again, on one interval
C25_Witness ==
    \E id \in steps :
        /\ Running(id) /\ ~Unshifted(id)
        /\ live[id] = 1
        /\ now < timers[id].endTime

\* seconds r are within the run of the step's timer in world W
WithinRun(W, id, r) == 0 <= r /\ r <= W.timers[id].total

\* C26: every remaining value of a timer lies between 0 and the total of
\* its current run: the value a callback or a resync computes and displays,
\* the snapshot a pause stores, and the value computed after a resume,
\* whatever the clock reading (it never goes back) and the operations before.
C26_RemainingWithinTotal ==
    \A id \in steps :
        Present(id) =>
            /\ timeText[id] # NULL => WithinRun(World, id, timeText[id])
            /\ timers[id].pausedRemaining # NULL =>
                   WithinRun(World, id, timers[id].pausedRemaining)
            /\ timers[id].endTime # NULL =>
                   WithinRun(World, id, Remaining(World, id))
            /\ LET W == pauseTimer(World, id)
               IN  W.timers[id].pausedRemaining # NULL =>
                       WithinRun(W, id, W.timers[id].pausedRemaining)
            /\ LET W == resumeTimer(World, id)
               IN  W.timers[id].endTime # NULL =>
                       WithinRun(W, id, Remaining(W, id))

\* the clock is past the end of a run that was paused and resumed, and no
\* callback has been delivered since
C26_Witness ==
    \E id \in steps :
        /\ Running(id) /\ ~Unshifted(id)
        /\ now > timers[id].endTime
        /\ timeText[id] > 0

\* milliseconds the timer of the step still has to run in world W
StillToRun(W, id) ==
    IF W.timers[id].isPaused
    THEN W.timers[id].pausedRemaining * MsPerSecond
    ELSE Max(0, W.timers[id].endTime - W.now)

\* a pause / resume cycle at this clock reading leaves at least the time
\* that was left, and less than one second more
CycleGain(id) ==
    LET P == pauseTimer(World, id)
        R == resumeTimer(P, id)
    IN  /\ StillToRun(P, id) >= StillToRun(World, id)
        /\ StillToRun(P, id) <  StillToRun(World, id) + MsPerSecond
        /\ StillToRun(R, id) = StillToRun(P, id)
        /\ R.timers[id].endTime = now + StillToRun(P, id)

\* running time is the only thing that consumes the time still to run:
\* within a run (same start, same total) the snapshot of a paused timer stays as it is whatever the clock does,
\* a resume turns it into the same time to run, and the end timestamp of a
\* run moves only at a resume
TimeToRunKept(id) ==
    (/\ Present(id) /\ Present(id)'
     /\ timers'[id].startTime = timers[id].startTime
     /\ timers'[id].total = timers[id].total) =>
        /\ (Paused(id) /\ Paused(id)') =>
               timers'[id].pausedRemaining = timers[id].pausedRemaining
        /\ (Paused(id) /\ Running(id)') =>
               timers'[id].endTime = now' + StillToRun(World, id)
        /\ (Running(id) /\ Running(id)') =>
               timers'[id].endTime = timers[id].endTime

\* C27 (as amended): a pause / resume cycle never shortens a run. The
\* snapshot is the time left rounded up to whole seconds, so the time still
\* to run after the resume is at least the time left at the pause and
\* exceeds it by less than 1000 ms; nothing else moves the end timestamp or
\* the snapshot of a run, so the end timestamp of a run is never earlier
\* than total seconds after its start, and the time the timer has to run
\* until its end timestamp is total seconds plus less than one second per
\* cycle.
C27_CycleNeverShortens ==
    /\ [](\A id \in steps :
            /\ Running(id) => CycleGain(id)
            /\ (Running(id) \/ Paused(id)) =>
                   timers[id].endTime >=
                       timers[id].startTime + timers[id].total * MsPerSecond)
    /\ [][\A id \in steps : TimeToRunKept(id)]_vars

\* a paused timer whose snapshot is above the time that was left
C27_Witness ==
    \E id \in steps :
        /\ Paused(id)
        /\ now < timers[id].endTime
        /\ StillToRun(World, id) > timers[id].endTime - now
        /\ StillToRun(World, id) < timers[id].endTime - now + MsPerSecond

\* C27 (as stated): the cycle never shortens the run, and a timer is
\* Running for at most total seconds plus less than one second per cycle
\* before it finishes: a timer whose end timestamp no cycle has moved is
\* not Running beyond it.
C27_RunningTimeBounded ==
    \A id \in steps :
        /\ Running(id) => CycleGain(id)
        /\ (Running(id) /\ Unshifted(id)) => now <= timers[id].endTime

\* C28: after completeStep has stopped a Running timer, and until the timer
\* is started or reset again, a visibility resync changes neither the
\* displayed remaining time of the step nor its warning sounds nor its
\* finished events.
C28_HaltedUntouchedByResync ==
    \A id \in steps :
        (id \in completedSteps /\ Halted(id)) =>
            LET W == handleVisibilityChange(World, FALSE)
            IN  /\ W.timeText[id] = timeText[id]
                /\ W.warningSounds[id] = warningSounds[id]
                /\ W.finishedEvents[id] = finishedEvents[id]

\* the control state updateTimerButtons is to show for the step's timer
ControlsOf(id) ==
    IF Running(id) THEN "running"
    ELSE IF Paused(id) THEN "paused"
    ELSE "stopped"

\* C29: the controls shown for a step match its timer in every reachable
\* state: 'running' exactly when an interval is scheduled, 'paused' exactly
\* when the timer is Paused, 'stopped' otherwise.
C29_ControlsMatchTimer ==
    \A id \in steps : buttons[id] = ControlsOf(id)

(* ---------------- the two variants side by side ---------------- *)
\* seconds of clock after the start of the timers
MaxSeconds == MaxMinutes * SecondsPerMinute + MaxCount

\* the same step's timer is started in both variants at the same clock
\* reading
StartBoth(id, minutes) ==
    /\ id \notin DOMAIN counter.timers
    /\ Yields(startTimer(World, id, minutes))
    /\ counter' = startTimerCounter(counter, id, minutes)
    /\ UNCHANGED advances

\* one second passes; the host delivers the callbacks due at its end to the
\* intervals still scheduled, or drops them
Second(id, delivered) ==
    /\ id \in DOMAIN counter.timers
    /\ advances < MaxSeconds
    /\ advances' = advances + 1
    /\ LET W == [World EXCEPT !.now = @ + MsPerSecond]
       IN  Yields(IF delivered /\ live[id] > 0
                  THEN intervalCallback(W, id)
                  ELSE W)
    /\ counter' =
           IF delivered
           THEN LET C == [counter EXCEPT !.ticks = @ + 1]
                IN  IF counter.live[id] > 0 THEN counterCallback(C, id) ELSE C
           ELSE [counter EXCEPT !.dropped = @ + 1]

NextCounter ==
    \/ \E id \in steps, m \in Minutes : StartBoth(id, m)
    \/ \E id \in steps, delivered \in BOOLEAN : Second(id, delivered)

SpecCounter == Init /\ [][NextCounter]_vars

\* both variants of the step's timer have been started
Compared(id) == id \in DOMAIN counter.timers /\ Present(id)

\* with every callback delivered: the counter shows d - k after the k-th
\* callback up to k = d and finishes on callback d + 1; the timestamp
\* variant has finished once d seconds have passed
EveryTickDelivered(id) ==
    LET d == counter.timers[id].total
        k == counter.ticks
    IN  counter.dropped = 0 =>
            /\ k <= d =>
                   /\ counter.timers[id].remaining = d - k
                   /\ k >= 1 => counter.timeText[id] = d - k
                   /\ counter.finishedEvents[id] = 0
                   /\ counter.live[id] = 1
            /\ k > d =>
                   /\ counter.finishedEvents[id] = 1
                   /\ counter.timeText[id] = IF d > 0 THEN 0 ELSE NULL
                   /\ counter.live[id] = 0
            /\ finishedEvents[id] = IF k >= d THEN 1 ELSE 0

\* C30 (as amended): with no pause and every 1-second callback delivered,
\* the counter variant started with d seconds shows d - k after the k-th
\* callback for k <= d and emits finished on callback d + 1, one callback
\* after its display reached 0, while the timestamp variant has finished by
\* the callback at d seconds (in startTimer itself for d = 0); with j
\* callbacks dropped the counter holds d minus the callbacks delivered, which
\* is j seconds above the timestamp variant's remaining time while the clock
\* is within d seconds of the start, and what is left of d + j once it is
\* past them, the timestamp variant's being 0 from then on.
C30_CounterLagsTimestamp ==
    \A id \in steps :
        Compared(id) =>
            LET d == counter.timers[id].total
                t == counter.ticks + counter.dropped
            IN  /\ EveryTickDelivered(id)
                /\ now = timers[id].startTime + t * MsPerSecond
                /\ counter.timers[id].remaining = Max(0, d - counter.ticks)
                /\ Remaining(World, id) = Max(0, d - t)
                /\ t <= d => counter.timers[id].remaining =
                                 Remaining(World, id) + counter.dropped
                /\ finishedEvents[id] > 0 => t >= d
                /\ counter.finishedEvents[id] > 0 => counter.ticks > d

\* callbacks were dropped on the way, and the counter variant has finished
\* after the timestamp variant
C30_Witness ==
    \E id \in steps :
        /\ Compared(id)
        /\ counter.timers[id].total > 0
        /\ counter.dropped > 0
        /\ counter.finishedEvents[id] = 1
        /\ finishedEvents[id] = 1

\* C30 (as stated), for timers started with a positive duration: the
\* same, with the counter j seconds above the timestamp variant's remaining
\* time at every clock reading.
C30_CounterAboveByDropped ==
    \A id \in steps :
        (Compared(id) /\ counter.timers[id].total > 0) =>
            /\ EveryTickDelivered(id)
            /\ counter.timers[id].remaining =
                   Remaining(World, id) + counter.dropped
====
